---------------------------- MODULE Spec2Model ----------------------------
(***************************************************************************)
(* The stake contract of rusk (contracts/stake/src/wasm/callable.rs):      *)
(* StakeContract::stake, extend_stake, withdraw_stake and slash over the   *)
(* contract's counter, stake_identifier_set and stake_mapping, with the    *)
(* BLS signature host function and the transfer contract as environment.   *)
(***************************************************************************)
EXTENDS Integers, Sequences, FiniteSets, TLC

(***************************************************************************)
(* Bounds of the model.                                                    *)
(***************************************************************************)
\* Number of stake() calls that pass the bounds check in one behaviour.
MaxStakes == 2
\* Stakes are created at heights up to MaxPeriods * EXPIRATION_PERIOD and
\* extended up to that expiration.
MaxPeriods == 2

(***************************************************************************)
(* Program constants (callable.rs lines 18-28, 241, 257).                  *)
(***************************************************************************)
MATURITY_PERIOD == 0
EXPIRATION_PERIOD == 250000
COOLDOWN_PERIOD == 0
ARBITRATION_CUTOFF == 6311520

(***************************************************************************)
(* u64 amounts.  The amounts of the contract (10^14 .. 10^16, modulus      *)
(* 2^64) do not fit a 32-bit integer, so an amount is the triple           *)
(* <<hi, mid, lo>> of its base-10^7 digits: hi * 10^14 + mid * 10^7 + lo.  *)
(***************************************************************************)
Limb == 10 ^ 7

AmtLt(a, b) ==
    \/ a[1] < b[1]
    \/ a[1] = b[1] /\ a[2] < b[2]
    \/ a[1] = b[1] /\ a[2] = b[2] /\ a[3] < b[3]

\* a - b for a >= b, digit by digit with borrow.
AmtSub(a, b) ==
    LET b3 == IF a[3] < b[3] THEN 1 ELSE 0
        lo == a[3] + b3 * Limb - b[3]
        b2 == IF a[2] - b3 < b[2] THEN 1 ELSE 0
        mid == a[2] - b3 + b2 * Limb - b[2]
        hi == a[1] - b2 - b[1]
    IN  <<hi, mid, lo>>

\* a + b, digit by digit with carry (no reduction modulo 2^64).
AmtAdd(a, b) ==
    LET s3 == a[3] + b[3]
        s2 == a[2] + b[2] + s3 \div Limb
    IN  <<a[1] + b[1] + s2 \div Limb, s2 % Limb, s3 % Limb>>

\* 2^64 = 18446744073709551616
U64Modulus == <<184467, 4407370, 9551616>>

\* u64 subtraction as a release build computes it: modulo 2^64.
WrappingSub(a, b) ==
    IF AmtLt(a, b) THEN AmtSub(U64Modulus, AmtSub(b, a)) ELSE AmtSub(a, b)

AmtOne == <<0, 0, 1>>

\* 100_000_000_000_000
MINIMUM_STAKE == <<1, 0, 0>>
\* 10_000_000_000_000_000
MAXIMUM_STAKE == <<100, 0, 0>>
\* 5000e10
PENALTY == <<0, 5000000, 0>>

(***************************************************************************)
(* Inputs.                                                                 *)
(***************************************************************************)
PKs == {"pk1", "pk2"}

\* Values offered to stake(): both bounds, their outer neighbours, and a
\* value below the penalty of slash.
StakeValues ==
    { AmtSub(MINIMUM_STAKE, AmtOne), MINIMUM_STAKE,
      MAXIMUM_STAKE, AmtAdd(MAXIMUM_STAKE, AmtOne),
      AmtSub(PENALTY, AmtOne) }

\* Block heights the chain visits: the start, each period boundary, and the
\* two heights around the arbitration cutoff.
Heights ==
    { k * EXPIRATION_PERIOD : k \in 0..MaxPeriods }
        \cup { ARBITRATION_CUTOFF - 1, ARBITRATION_CUTOFF }

MaxExpiration == MaxPeriods * EXPIRATION_PERIOD

\* Counters a caller may name: every allocated one and one never allocated.
Counters == 0..MaxStakes

\* BlsScalar::from(n).to_bytes(): the little-endian bytes of the scalar.  Of
\* the 32 bytes the low four are kept: every height and vote message of the
\* model is below 2^32, so the other 28 are zero.
ScalarToBytes(n) == [i \in 1..4 |-> (n \div (256 ^ (i - 1))) % 256]

\* A BLS signature is the pair it was made for: the signer and the bytes
\* of the message.
Sign(pk, msg) == [signer |-> pk, msg |-> msg]

\* Messages signed for extend/withdraw: the expiration heights a stake can
\* have, that of a stake created at the last explored height included.
ExpirationMsgs == { k * EXPIRATION_PERIOD : k \in 1..(MaxPeriods + 1) }

SigInputs == { Sign(p, ScalarToBytes(m)) : p \in PKs, m \in ExpirationMsgs }

\* A note: its value, and whether note.value(None) can read it (the value of
\* an obfuscated note needs a view key).
Note(v) == [readable |-> TRUE, value |-> v]

HiddenNote(v) == [readable |-> FALSE, value |-> v]

WithdrawNotes == { Note(MINIMUM_STAKE), Note(MAXIMUM_STAKE) }

SlashNotes ==
    { Note(AmtSub(PENALTY, AmtOne)), Note(PENALTY), Note(AmtAdd(PENALTY, AmtOne)),
      HiddenNote(PENALTY), HiddenNote(AmtAdd(PENALTY, AmtOne)) }

\* Messages of the two votes: the first vote, and the second, which repeats
\* the first or conflicts with it.
FirstMsgs == {1}
SlashMsgs == {1, 2}

\* Signatures offered to slash for pk: its signature over either message, so
\* each of them verifies over one message and fails over the other.
SlashSigs(pk) == { Sign(pk, ScalarToBytes(m)) : m \in SlashMsgs }

\* Outcome of one call into the transfer contract: the transaction could
\* not be built, or transact_raw answered true or false.
TransferOutcomes == {"ok", "refused", "build_err"}

\* What a field of `last` holds when the invocation has no such argument.
NoVal == "none"
NoInt == 0 - 1
NoAmount == <<0, 0, 0>>
NoNote == [readable |-> FALSE, value |-> NoAmount]
NoSig == [signer |-> NoVal, msg |-> <<>>]
NoKey == [pk |-> NoVal, w_i |-> NoInt]

(***************************************************************************)
(* State.                                                                  *)
(***************************************************************************)
VARIABLES
    counter,               \* StakeContract.counter
    stake_identifier_set,  \* StakeContract.stake_identifier_set: Counter -> Key
    stake_mapping,         \* StakeContract.stake_mapping: Key -> Stake
    block_height,          \* dusk_abi::block_height()
    last,                  \* the last invocation: its arguments and result
    transfers,             \* the transact_raw calls the last invocation issued
    returned,              \* the Counters returned with success = true, in call order
    removed,               \* the Keys withdraw_stake removed from stake_mapping
    spent                  \* the (Key, signature) pairs of the successful extensions

vars ==
    <<counter, stake_identifier_set, stake_mapping, block_height, last,
      transfers, returned, removed, spent>>

(***************************************************************************)
(* The maps (canonical's Map): insert answers with the entry it replaced,  *)
(* remove with the entry it removed.                                       *)
(***************************************************************************)
EmptyMap == [x \in {} |-> NoVal]

MapHas(m, k) == k \in DOMAIN m

MapInsert(m, k, v) == [x \in DOMAIN m \cup {k} |-> IF x = k THEN v ELSE m[x]]

\* Mutant: remove leaves the entry in place.
MapRemove_Keeps(m, k) == m

MapRemove(m, k) == [x \in DOMAIN m \ {k} |-> m[x]]

(***************************************************************************)
(* Counter.                                                                *)
(***************************************************************************)
CounterDefault == 0

Increment(c) == c + 1

(***************************************************************************)
(* Key and Stake.                                                          *)
(***************************************************************************)
Key(pk, w_i) == [pk |-> pk, w_i |-> w_i]

\* The host function verify_bls_sig: 1 when sig is pk's signature over msg,
\* 0 otherwise.
verify_bls_sig(pk, sig, msg) == IF sig.signer = pk /\ sig.msg = msg THEN 1 ELSE 0

\* Mutant: the result of the host function is never taken as a rejection.
SigRejected_Never(res) == res < 0

\* "if res == 0i32 { return false; }"
SigRejected(res) == res = 0

\* Mutant: the message is the same whatever the expiration.
SigMessage_Period(t_e) == ScalarToBytes(EXPIRATION_PERIOD)

\* The message of extend_stake and withdraw_stake: the expiration's bytes.
SigMessage(t_e) == ScalarToBytes(t_e)

\* No invocation is running: the host runs one invocation at a time, each
\* to completion.
Idle == last.op = NoVal

(***************************************************************************)
(* stake                                                                   *)
(***************************************************************************)
\* Mutant: the upper bound is exclusive (value >= MAXIMUM_STAKE).
BoundsRejected_Exclusive(value) ==
    ~AmtLt(value, MAXIMUM_STAKE) \/ AmtLt(value, MINIMUM_STAKE)

\* Mutant: no value is rejected.
BoundsRejected_Never(value) == FALSE

\* Mutant: the lower bound is not checked.
BoundsRejected_NoLower(value) == AmtLt(MAXIMUM_STAKE, value)

\* "if value > MAXIMUM_STAKE || value < MINIMUM_STAKE"
BoundsRejected(value) ==
    AmtLt(MAXIMUM_STAKE, value) \/ AmtLt(value, MINIMUM_STAKE)

StakeEligibility(h) == h + MATURITY_PERIOD

\* Mutant: the expiration period is left out of the sum.
StakeExpiration_NoPeriod(h) == h + MATURITY_PERIOD

StakeExpiration(h) == h + MATURITY_PERIOD + EXPIRATION_PERIOD

NewStake(value, public_key, h) ==
    [ value |-> value, pk |-> public_key,
      eligibility |-> StakeEligibility(h), expiration |-> StakeExpiration(h) ]

\* The transact_raw calls of one step into the transfer contract.
Transfer(call, amount, dest, out) ==
    IF out = "build_err" THEN <<>>
    ELSE << [call |-> call, amount |-> amount, dest |-> dest, ok |-> (out = "ok")] >>

\* Mutant: every path returns Counter::default(), as the bounds check does.
StakeCall_ReturnsDefault(value, public_key, out) ==
    LET stake == NewStake(value, public_key, block_height)
        w_i == counter
        k == Key(public_key, w_i)
        set1 == MapInsert(stake_identifier_set, counter, k)
        map1 == MapInsert(stake_mapping, k, stake)
    IN  IF BoundsRejected(value)
        THEN [ counter |-> counter, set |-> stake_identifier_set,
               mapping |-> stake_mapping, retCounter |-> CounterDefault,
               ret |-> FALSE, transfers |-> <<>> ]
        ELSE IF MapHas(stake_identifier_set, counter)
        THEN [ counter |-> counter, set |-> set1, mapping |-> stake_mapping,
               retCounter |-> CounterDefault, ret |-> FALSE, transfers |-> <<>> ]
        ELSE IF MapHas(stake_mapping, k)
        THEN [ counter |-> counter, set |-> set1, mapping |-> map1,
               retCounter |-> CounterDefault, ret |-> FALSE, transfers |-> <<>> ]
        ELSE [ counter |-> Increment(counter), set |-> set1, mapping |-> map1,
               retCounter |-> CounterDefault, ret |-> (out = "ok"),
               transfers |->
                   Transfer("send_to_contract_transparent", value, "contract", out) ]

\* Mutant: the counter steps backwards after the insertions.
StakeCall_Decrements(value, public_key, out) ==
    LET stake == NewStake(value, public_key, block_height)
        w_i == counter
        k == Key(public_key, w_i)
        set1 == MapInsert(stake_identifier_set, counter, k)
        map1 == MapInsert(stake_mapping, k, stake)
    IN  IF BoundsRejected(value)
        THEN [ counter |-> counter, set |-> stake_identifier_set,
               mapping |-> stake_mapping, retCounter |-> CounterDefault,
               ret |-> FALSE, transfers |-> <<>> ]
        ELSE IF MapHas(stake_identifier_set, counter)
        THEN [ counter |-> counter, set |-> set1, mapping |-> stake_mapping,
               retCounter |-> w_i, ret |-> FALSE, transfers |-> <<>> ]
        ELSE IF MapHas(stake_mapping, k)
        THEN [ counter |-> counter, set |-> set1, mapping |-> map1,
               retCounter |-> w_i, ret |-> FALSE, transfers |-> <<>> ]
        ELSE [ counter |-> counter - 1, set |-> set1, mapping |-> map1,
               retCounter |-> w_i, ret |-> (out = "ok"),
               transfers |->
                   Transfer("send_to_contract_transparent", value, "contract", out) ]

\* Mutant: a failed deposit rolls the insertions and the increment back.
StakeCall_RollsBack(value, public_key, out) ==
    LET stake == NewStake(value, public_key, block_height)
        w_i == counter
        k == Key(public_key, w_i)
        set1 == MapInsert(stake_identifier_set, counter, k)
        map1 == MapInsert(stake_mapping, k, stake)
    IN  IF BoundsRejected(value)
        THEN [ counter |-> counter, set |-> stake_identifier_set,
               mapping |-> stake_mapping, retCounter |-> CounterDefault,
               ret |-> FALSE, transfers |-> <<>> ]
        ELSE IF MapHas(stake_identifier_set, counter)
        THEN [ counter |-> counter, set |-> set1, mapping |-> stake_mapping,
               retCounter |-> w_i, ret |-> FALSE, transfers |-> <<>> ]
        ELSE IF MapHas(stake_mapping, k)
        THEN [ counter |-> counter, set |-> set1, mapping |-> map1,
               retCounter |-> w_i, ret |-> FALSE, transfers |-> <<>> ]
        ELSE [ counter |-> IF out = "ok" THEN Increment(counter) ELSE counter,
               set |-> IF out = "ok" THEN set1 ELSE stake_identifier_set,
               mapping |-> IF out = "ok" THEN map1 ELSE stake_mapping,
               retCounter |-> w_i, ret |-> (out = "ok"),
               transfers |->
                   Transfer("send_to_contract_transparent", value, "contract", out) ]

\* Mutant: the counter is not incremented.
StakeCall_NoIncrement(value, public_key, out) ==
    LET stake == NewStake(value, public_key, block_height)
        w_i == counter
        k == Key(public_key, w_i)
        set1 == MapInsert(stake_identifier_set, counter, k)
        map1 == MapInsert(stake_mapping, k, stake)
    IN  IF BoundsRejected(value)
        THEN [ counter |-> counter, set |-> stake_identifier_set,
               mapping |-> stake_mapping, retCounter |-> CounterDefault,
               ret |-> FALSE, transfers |-> <<>> ]
        ELSE IF MapHas(stake_identifier_set, counter)
        THEN [ counter |-> counter, set |-> set1, mapping |-> stake_mapping,
               retCounter |-> w_i, ret |-> FALSE, transfers |-> <<>> ]
        ELSE IF MapHas(stake_mapping, k)
        THEN [ counter |-> counter, set |-> set1, mapping |-> map1,
               retCounter |-> w_i, ret |-> FALSE, transfers |-> <<>> ]
        ELSE [ counter |-> counter, set |-> set1, mapping |-> map1,
               retCounter |-> w_i, ret |-> (out = "ok"),
               transfers |->
                   Transfer("send_to_contract_transparent", value, "contract", out) ]

\* StakeContract::stake: the store after the call, the pair returned and
\* the transfer issued.
StakeCall(value, public_key, out) ==
    LET stake == NewStake(value, public_key, block_height)
        w_i == counter
        k == Key(public_key, w_i)
        set1 == MapInsert(stake_identifier_set, counter, k)
        map1 == MapInsert(stake_mapping, k, stake)
    IN  IF BoundsRejected(value)
        THEN [ counter |-> counter, set |-> stake_identifier_set,
               mapping |-> stake_mapping, retCounter |-> CounterDefault,
               ret |-> FALSE, transfers |-> <<>> ]
        ELSE IF MapHas(stake_identifier_set, counter)
        THEN [ counter |-> counter, set |-> set1, mapping |-> stake_mapping,
               retCounter |-> w_i, ret |-> FALSE, transfers |-> <<>> ]
        ELSE IF MapHas(stake_mapping, k)
        THEN [ counter |-> counter, set |-> set1, mapping |-> map1,
               retCounter |-> w_i, ret |-> FALSE, transfers |-> <<>> ]
        ELSE [ counter |-> Increment(counter), set |-> set1, mapping |-> map1,
               retCounter |-> w_i, ret |-> (out = "ok"),
               transfers |->
                   Transfer("send_to_contract_transparent", value, "contract", out) ]

NoCall ==
    [ op |-> NoVal, pk |-> NoVal, w_i |-> NoInt, value |-> NoAmount,
      note |-> NoNote, sig |-> NoSig, sig2 |-> NoSig, m1 |-> NoInt, m2 |-> NoInt,
      found |-> NoKey, out |-> "ok", out2 |-> "ok", ret |-> FALSE,
      retCounter |-> NoInt ]

\* One stake invocation.  An answer of the transfer contract other than "ok"
\* is an input only where the call asks for it (where it changes the result);
\* the guards on MaxStakes and MaxExpiration bound the exploration.
Stake(value, public_key, out) ==
    LET r == StakeCall(value, public_key, out)
    IN  /\ Idle
        /\ out # "ok" => r # StakeCall(value, public_key, "ok")
        /\ ~BoundsRejected(value) =>
               /\ counter < MaxStakes
               /\ block_height <= MaxExpiration
        /\ counter' = r.counter
        /\ stake_identifier_set' = r.set
        /\ stake_mapping' = r.mapping
        /\ transfers' = r.transfers
        /\ last' = [NoCall EXCEPT !.op = "stake", !.pk = public_key, !.value = value,
                                  !.out = out, !.ret = r.ret,
                                  !.retCounter = r.retCounter]
        /\ returned' = IF r.ret THEN Append(returned, r.retCounter) ELSE returned
        /\ UNCHANGED <<block_height, removed, spent>>

(***************************************************************************)
(* extend_stake                                                            *)
(***************************************************************************)
\* Mutant: "=" for "+=".
ExtendedExpiration_Assign(t_e) == EXPIRATION_PERIOD

\* "stake.expiration += EXPIRATION_PERIOD"
ExtendedExpiration(t_e) == t_e + EXPIRATION_PERIOD

ExtendCall(w_i, pk, sig) ==
    LET k == Key(pk, w_i)
    IN  IF ~MapHas(stake_mapping, k)
        THEN [mapping |-> stake_mapping, ret |-> FALSE]
        ELSE LET stake == stake_mapping[k]
                 t_e == stake.expiration
             IN  IF SigRejected(verify_bls_sig(pk, sig, SigMessage(t_e)))
                 THEN [mapping |-> stake_mapping, ret |-> FALSE]
                 ELSE [ mapping |->
                            MapInsert(stake_mapping, k,
                                [stake EXCEPT !.expiration = ExtendedExpiration(t_e)]),
                        ret |-> MapHas(stake_mapping, k) ]

ExtendStake(w_i, pk, sig) ==
    LET r == ExtendCall(w_i, pk, sig)
        k == Key(pk, w_i)
    IN  /\ Idle
        /\ r.ret => ExtendedExpiration(stake_mapping[k].expiration) <= MaxExpiration
        /\ stake_mapping' = r.mapping
        /\ transfers' = <<>>
        /\ last' = [NoCall EXCEPT !.op = "extend_stake", !.pk = pk, !.w_i = w_i,
                                  !.sig = sig, !.ret = r.ret]
        /\ spent' = IF r.ret THEN spent \cup {[key |-> k, sig |-> sig]} ELSE spent
        /\ UNCHANGED <<counter, stake_identifier_set, block_height, returned,
                       removed>>

(***************************************************************************)
(* withdraw_stake                                                          *)
(***************************************************************************)
\* Mutant: the comparison is turned around.
WithdrawTooEarly_Reversed(t_e, h) == t_e <= h + COOLDOWN_PERIOD

\* "Make sure that the stake has expired."
WithdrawTooEarly(t_e, h) == t_e >= h + COOLDOWN_PERIOD

\* Mutant: the record is removed only when the payout succeeds.
WithdrawCall_KeepsOnFailure(w_i, pk, sig, note, out) ==
    LET k == Key(pk, w_i)
        fail ==
            [ mapping |-> stake_mapping, ret |-> FALSE, transfers |-> <<>>,
              removed |-> {} ]
    IN  IF ~MapHas(stake_mapping, k) THEN fail
        ELSE LET stake == stake_mapping[k]
                 t_e == stake.expiration
             IN  IF WithdrawTooEarly(t_e, block_height) THEN fail
                 ELSE IF SigRejected(verify_bls_sig(pk, sig, SigMessage(t_e)))
                 THEN fail
                 ELSE [ mapping |-> IF out = "ok" THEN MapRemove(stake_mapping, k)
                                    ELSE stake_mapping,
                        ret |-> (out = "ok"),
                        transfers |->
                            Transfer("withdraw_from_contract_transparent",
                                     note.value, "caller", out),
                        removed |-> IF out = "ok" THEN {k} ELSE {} ]

WithdrawCall(w_i, pk, sig, note, out) ==
    LET k == Key(pk, w_i)
        fail ==
            [ mapping |-> stake_mapping, ret |-> FALSE, transfers |-> <<>>,
              removed |-> {} ]
    IN  IF ~MapHas(stake_mapping, k) THEN fail
        ELSE LET stake == stake_mapping[k]
                 t_e == stake.expiration
             IN  IF WithdrawTooEarly(t_e, block_height) THEN fail
                 ELSE IF SigRejected(verify_bls_sig(pk, sig, SigMessage(t_e)))
                 THEN fail
                 ELSE [ mapping |-> MapRemove(stake_mapping, k),
                        ret |-> (out = "ok"),
                        transfers |->
                            Transfer("withdraw_from_contract_transparent",
                                     note.value, "caller", out),
                        removed |-> {k} ]

WithdrawStake(w_i, pk, sig, note, out) ==
    LET r == WithdrawCall(w_i, pk, sig, note, out)
    IN  /\ Idle
        /\ out # "ok" => r # WithdrawCall(w_i, pk, sig, note, "ok")
        /\ stake_mapping' = r.mapping
        /\ transfers' = r.transfers
        /\ last' = [NoCall EXCEPT !.op = "withdraw_stake", !.pk = pk, !.w_i = w_i,
                                  !.sig = sig, !.note = note, !.out = out,
                                  !.ret = r.ret]
        /\ removed' = removed \cup r.removed
        /\ UNCHANGED <<counter, stake_identifier_set, block_height, returned,
                       spent>>

(***************************************************************************)
(* slash                                                                   *)
(***************************************************************************)
\* self.find_stake(pk): a live stake of pk; which one, when pk holds several,
\* is not fixed, and the call cannot complete when pk holds none.
FindStake(pk) ==
    LET live == { k \in DOMAIN stake_mapping : k.pk = pk }
    IN  IF live = {} THEN {NoKey} ELSE live

\* Mutant: the cutoff height itself still goes to the arbitration contract.
SlashDest_Inclusive(h) ==
    IF h <= ARBITRATION_CUTOFF THEN "arbitration_contract" ELSE "default"

SlashDest(h) == IF h < ARBITRATION_CUTOFF THEN "arbitration_contract" ELSE "default"

\* Mutant: the two messages are never taken as equal.
SameMessages_Never(message_1, message_2) == FALSE

\* "if message_1 == message_2 { return false; }"
SameMessages(message_1, message_2) == message_1 = message_2

SlashCall(pk, message_1, message_2, signature_1, signature_2, note, out1, out2, found) ==
    LET fail == [ret |-> FALSE, transfers |-> <<>>, found |-> NoKey]
        first ==
            Transfer("withdraw_from_contract_transparent", note.value, "caller", out1)
    IN  IF SameMessages(message_1, message_2) THEN fail
        ELSE IF SigRejected(verify_bls_sig(pk, signature_1, ScalarToBytes(message_1)))
        THEN fail
        ELSE IF SigRejected(verify_bls_sig(pk, signature_2, ScalarToBytes(message_2)))
        THEN fail
        ELSE IF ~note.readable
        THEN [ret |-> TRUE, transfers |-> <<>>, found |-> NoKey]
        ELSE IF note.value # PENALTY THEN fail
        ELSE IF out1 # "ok"
        THEN [ret |-> FALSE, transfers |-> first, found |-> NoKey]
        ELSE IF found = NoKey
        THEN [ret |-> FALSE, transfers |-> first, found |-> NoKey]
        ELSE LET stake == stake_mapping[found]
                 amount == WrappingSub(stake.value, PENALTY)
             IN  [ ret |-> (out2 = "ok"),
                   transfers |->
                       first \o Transfer("withdraw_from_transparent_to_contract",
                                         amount, SlashDest(block_height), out2),
                   found |-> found ]

Slash(pk, message_1, message_2, signature_1, signature_2, note, out1, out2, found) ==
    LET r == SlashCall(pk, message_1, message_2, signature_1, signature_2,
                       note, out1, out2, found)
        Same(o1, o2, f) ==
            r = SlashCall(pk, message_1, message_2, signature_1, signature_2,
                          note, o1, o2, f)
    IN  /\ Idle
        /\ out1 # "ok" => ~Same("ok", out2, found)
        /\ out2 # "ok" => ~Same(out1, "ok", found)
        /\ found = CHOOSE f \in FindStake(pk) : Same(out1, out2, f)
        /\ transfers' = r.transfers
        /\ last' = [NoCall EXCEPT !.op = "slash", !.pk = pk, !.m1 = message_1,
                                  !.m2 = message_2, !.sig = signature_1,
                                  !.sig2 = signature_2, !.note = note,
                                  !.found = r.found, !.out = out1, !.out2 = out2,
                                  !.ret = r.ret]
        /\ UNCHANGED <<counter, stake_identifier_set, stake_mapping, block_height,
                       returned, removed, spent>>

(***************************************************************************)
(* The chain: the block height only grows.                                 *)
(***************************************************************************)
AdvanceHeight(h) ==
    /\ Idle
    /\ h > block_height
    /\ block_height' = h
    /\ UNCHANGED <<counter, stake_identifier_set, stake_mapping, last, transfers,
                   returned, removed, spent>>

(***************************************************************************)
(* The invocation returns to the host: the next transaction starts with no *)
(* invocation on record.                                                   *)
(***************************************************************************)
Return ==
    /\ ~Idle
    /\ last' = NoCall
    /\ transfers' = <<>>
    /\ UNCHANGED <<counter, stake_identifier_set, stake_mapping, block_height,
                   returned, removed, spent>>

(***************************************************************************)
(* Specification.                                                          *)
(***************************************************************************)
Init ==
    /\ counter = CounterDefault
    /\ stake_identifier_set = EmptyMap
    /\ stake_mapping = EmptyMap
    /\ block_height = 0
    /\ last = NoCall
    /\ transfers = <<>>
    /\ returned = <<>>
    /\ removed = {}
    /\ spent = {}

\* The invocations the host may start, with their arguments and the
\* environment's answers.
StakeInvocation ==
    /\ Idle
    /\ \E value \in StakeValues, public_key \in PKs, out \in TransferOutcomes :
           Stake(value, public_key, out)

ExtendStakeInvocation ==
    /\ Idle
    /\ \E w_i \in Counters, pk \in PKs, sig \in SigInputs :
           ExtendStake(w_i, pk, sig)

WithdrawStakeInvocation ==
    /\ Idle
    /\ \E w_i \in Counters, pk \in PKs, sig \in SigInputs,
          note \in WithdrawNotes, out \in TransferOutcomes :
           WithdrawStake(w_i, pk, sig, note, out)

SlashInvocation ==
    /\ Idle
    /\ \E pk \in PKs, message_1 \in FirstMsgs, message_2 \in SlashMsgs,
          note \in SlashNotes, out1 \in TransferOutcomes, out2 \in TransferOutcomes :
           \E signature_1 \in SlashSigs(pk), signature_2 \in SlashSigs(pk),
              found \in FindStake(pk) :
               Slash(pk, message_1, message_2, signature_1, signature_2,
                     note, out1, out2, found)

Next ==
    \/ StakeInvocation
    \/ ExtendStakeInvocation
    \/ WithdrawStakeInvocation
    \/ SlashInvocation
    \/ \E h \in Heights : AdvanceHeight(h)
    \/ Return

Spec == Init /\ [][Next]_vars

(***************************************************************************)
(* Properties.                                                             *)
(***************************************************************************)
\* The Key an extend_stake or withdraw_stake step names.
CalledKey == Key(last'.pk, last'.w_i)

IsStep(op) == last'.op = op

StoreUnchanged ==
    UNCHANGED <<counter, stake_identifier_set, stake_mapping>>

\* C1 (as claimed): in every state StakeIdentifierSet and StakeMapping describe
\* the same Keys: Counter c maps to Key k in the set if and only if k, with
\* k.w_i = c, is in StakeMapping.  withdraw_stake removes the Key from
\* stake_mapping only, so the code violates it.
C1_SetMatchesMapping ==
    /\ \A c \in DOMAIN stake_identifier_set :
           /\ stake_identifier_set[c].w_i = c
           /\ stake_identifier_set[c] \in DOMAIN stake_mapping
    /\ \A k \in DOMAIN stake_mapping :
           /\ k.w_i \in DOMAIN stake_identifier_set
           /\ stake_identifier_set[k.w_i] = k

\* C2 (as claimed): withdraw_stake on a live stake at any height
\* h >= expiration + COOLDOWN_PERIOD, the boundary included, with a signature
\* that verifies over the current expiration and a payout that succeeds,
\* returns true and removes the Key.  The code rejects h = expiration.
C2_WithdrawFromExpiration ==
    [][ ( /\ IsStep("withdraw_stake")
          /\ CalledKey \in DOMAIN stake_mapping
          /\ block_height >= stake_mapping[CalledKey].expiration + COOLDOWN_PERIOD
          /\ verify_bls_sig(last'.pk, last'.sig,
                 ScalarToBytes(stake_mapping[CalledKey].expiration)) # 0
          /\ last'.out = "ok" )
        => /\ last'.ret
           /\ CalledKey \notin DOMAIN stake_mapping' ]_vars

\* C3 (as claimed): after slash returned true, the Key of the stake it
\* located and paid out is no longer in StakeMapping.  slash never removes a
\* record, so the code violates it.
C3_SlashConsumesStake ==
    (last.op = "slash" /\ last.ret /\ last.found # NoKey)
        => last.found \notin DOMAIN stake_mapping

\* C4: the Counters returned by successful stake calls are strictly
\* increasing in call order (hence pairwise distinct), whatever was called in
\* between.
C4_ReturnedCountersIncrease ==
    \A i \in DOMAIN returned : \A j \in DOMAIN returned :
        i < j => returned[i] < returned[j]

\* C4 witness: two stakes succeeded in a behaviour that also withdrew a stake.
C4_Witness ==
    /\ Len(returned) >= 2
    /\ removed # {}

\* C5: extend_stake or withdraw_stake on a live stake with a signature the
\* oracle rejects over the stake's current expiration returns false, leaves
\* stake_mapping as it was and issues no transfer.
C5_BadSignatureRejected ==
    [][ ( /\ IsStep("extend_stake") \/ IsStep("withdraw_stake")
          /\ CalledKey \in DOMAIN stake_mapping
          /\ verify_bls_sig(last'.pk, last'.sig,
                 ScalarToBytes(stake_mapping[CalledKey].expiration)) = 0 )
        => /\ ~last'.ret
           /\ StoreUnchanged
           /\ transfers' = <<>> ]_vars

\* C5 witness: a withdrawal past the expiration, so that only the signature
\* stands in its way, was rejected for a signature over another message.
C5_Witness ==
    LET k == Key(last.pk, last.w_i)
    IN  /\ last.op = "withdraw_stake"
        /\ k \in DOMAIN stake_mapping
        /\ block_height > stake_mapping[k].expiration
        /\ last.sig.signer = last.pk
        /\ last.sig.msg # ScalarToBytes(stake_mapping[k].expiration)
        /\ ~last.ret

\* C6: withdraw_stake on a live stake at a height below
\* expiration + COOLDOWN_PERIOD returns false whether or not the signature
\* verifies, leaves stake_mapping as it was and issues no transfer.
C6_EarlyWithdrawRejected ==
    [][ ( /\ IsStep("withdraw_stake")
          /\ CalledKey \in DOMAIN stake_mapping
          /\ block_height < stake_mapping[CalledKey].expiration + COOLDOWN_PERIOD )
        => /\ ~last'.ret
           /\ StoreUnchanged
           /\ transfers' = <<>> ]_vars

\* C6 witness: an early withdrawal with a signature that verifies was rejected.
C6_Witness ==
    LET k == Key(last.pk, last.w_i)
    IN  /\ last.op = "withdraw_stake"
        /\ k \in DOMAIN stake_mapping
        /\ block_height > 0
        /\ block_height < stake_mapping[k].expiration + COOLDOWN_PERIOD
        /\ last.sig = Sign(last.pk, ScalarToBytes(stake_mapping[k].expiration))
        /\ ~last.ret

\* C7: stake returns (default Counter, false) with the store unchanged and no
\* transfer exactly when value < MINIMUM_STAKE or value > MAXIMUM_STAKE; a
\* value inside the bounds, both included, inserts a record.
C7_BoundsCheck ==
    [][ IsStep("stake") =>
          LET outside ==
                  AmtLt(last'.value, MINIMUM_STAKE) \/ AmtLt(MAXIMUM_STAKE, last'.value)
              refused ==
                  /\ ~last'.ret
                  /\ last'.retCounter = CounterDefault
                  /\ StoreUnchanged
                  /\ transfers' = <<>>
          IN  /\ outside <=> refused
              /\ ~outside => Key(last'.pk, counter) \in DOMAIN stake_mapping' ]_vars

\* C7 witness: a stake of exactly MAXIMUM_STAKE inserted its record, after a
\* stake of exactly MINIMUM_STAKE did.
C7_Witness ==
    /\ last.op = "stake"
    /\ last.value = MAXIMUM_STAKE
    /\ Key(last.pk, last.retCounter) \in DOMAIN stake_mapping
    /\ \E k \in DOMAIN stake_mapping : stake_mapping[k].value = MINIMUM_STAKE

\* C8: after a successful stake(value, public_key) at height h, the Counter
\* returned is the counter before the call and stake_mapping holds at
\* (public_key, that Counter) the Stake with the value and owner given,
\* eligibility = h + MATURITY_PERIOD = h and
\* expiration = eligibility + EXPIRATION_PERIOD = h + 250000.
C8_NewStakeRecord ==
    [][ (IsStep("stake") /\ last'.ret) =>
          LET k == Key(last'.pk, counter)
          IN  /\ last'.retCounter = counter
              /\ k \in DOMAIN stake_mapping'
              /\ stake_mapping'[k].value = last'.value
              /\ stake_mapping'[k].pk = last'.pk
              /\ stake_mapping'[k].eligibility = block_height + MATURITY_PERIOD
              /\ stake_mapping'[k].eligibility = block_height
              /\ stake_mapping'[k].expiration =
                     stake_mapping'[k].eligibility + EXPIRATION_PERIOD
              /\ stake_mapping'[k].expiration = block_height + 250000 ]_vars

\* C8 witness: a second stake succeeded at a height above 0.
C8_Witness ==
    /\ last.op = "stake"
    /\ last.ret
    /\ last.retCounter > 0
    /\ block_height > 0

\* C9: a successful extend_stake on Key k adds exactly EXPIRATION_PERIOD
\* (250000) to that stake's expiration and changes nothing else: not its
\* eligibility, value or owner, not the counter, not stake_identifier_set, no
\* other stake; and it issues no transfer.
C9_ExtendFrame ==
    [][ (IsStep("extend_stake") /\ last'.ret) =>
          /\ CalledKey \in DOMAIN stake_mapping
          /\ stake_mapping' =
                 [stake_mapping EXCEPT ![CalledKey].expiration = @ + 250000]
          /\ stake_mapping'[CalledKey].expiration =
                 stake_mapping[CalledKey].expiration + EXPIRATION_PERIOD
          /\ UNCHANGED <<counter, stake_identifier_set>>
          /\ transfers' = <<>> ]_vars

\* C9 witness: a stake was extended while its public key held another live
\* stake under a different Counter.
C9_Witness ==
    /\ last.op = "extend_stake"
    /\ last.ret
    /\ \E k \in DOMAIN stake_mapping : k.pk = last.pk /\ k.w_i # last.w_i

\* C10: extend_stake and withdraw_stake on a Key that is not in stake_mapping,
\* and on any Key withdraw_stake removed earlier, return false, change nothing
\* in the store and issue no transfer, whatever the signature and the height.
C10_AbsentKeyRejected ==
    [][ ( /\ IsStep("extend_stake") \/ IsStep("withdraw_stake")
          /\ CalledKey \notin DOMAIN stake_mapping \/ CalledKey \in removed )
        => /\ ~last'.ret
           /\ StoreUnchanged
           /\ transfers' = <<>> ]_vars

\* C10 witness: a second withdrawal of a withdrawn Key, signed by its owner
\* and past every expiration, was rejected.
C10_Witness ==
    /\ last.op = "withdraw_stake"
    /\ Key(last.pk, last.w_i) \in removed
    /\ last.sig.signer = last.pk
    /\ block_height > MaxExpiration
    /\ ~last.ret

\* C11: slash with message_1 = message_2 returns false for every public key,
\* every pair of signatures and every note, issues no transfer and leaves the
\* counter, stake_identifier_set and stake_mapping as they were.
C11_EqualMessagesRejected ==
    [][ (IsStep("slash") /\ last'.m1 = last'.m2)
        => /\ ~last'.ret
           /\ StoreUnchanged
           /\ transfers' = <<>> ]_vars

\* C11 witness: a slash of a public key that holds a live stake, with both
\* signatures verifying over the one message and a note of exactly PENALTY,
\* was rejected.
C11_Witness ==
    /\ last.op = "slash"
    /\ last.m1 = last.m2
    /\ last.sig = Sign(last.pk, ScalarToBytes(last.m1))
    /\ last.sig2 = Sign(last.pk, ScalarToBytes(last.m2))
    /\ last.note = Note(PENALTY)
    /\ \E k \in DOMAIN stake_mapping : k.pk = last.pk
    /\ ~last.ret

\* C12 (as claimed): slash with distinct messages and two verifying signatures
\* returns false, issues no transfer and changes no state whenever the value
\* of the note is not exactly PENALTY.  The code compares the value only when
\* note.value(None) can read it: with a note whose value it cannot read, it
\* skips the comparison and returns true.
C12_WrongNoteValueRejected ==
    [][ ( /\ IsStep("slash")
          /\ last'.m1 # last'.m2
          /\ verify_bls_sig(last'.pk, last'.sig, ScalarToBytes(last'.m1)) # 0
          /\ verify_bls_sig(last'.pk, last'.sig2, ScalarToBytes(last'.m2)) # 0
          /\ last'.note.value # PENALTY )
        => /\ ~last'.ret
           /\ StoreUnchanged
           /\ transfers' = <<>> ]_vars

\* C13: in every reachable state every Stake in stake_mapping has
\* MINIMUM_STAKE <= value <= MAXIMUM_STAKE, and no step (extend_stake,
\* withdraw_stake, slash or a later stake) changes the value of a stake that
\* is live before and after it.
C13_ValueBounds ==
    /\ [](\A k \in DOMAIN stake_mapping :
              /\ ~AmtLt(stake_mapping[k].value, MINIMUM_STAKE)
              /\ ~AmtLt(MAXIMUM_STAKE, stake_mapping[k].value))
    /\ [][ \A k \in DOMAIN stake_mapping \cap DOMAIN stake_mapping' :
               stake_mapping'[k].value = stake_mapping[k].value ]_vars

\* C13 witness: a stake of MAXIMUM_STAKE was extended and then paid out by a
\* slash that returned true, in a behaviour that also withdrew a stake: it is
\* still live with its value.
C13_Witness ==
    /\ last.op = "slash"
    /\ last.ret
    /\ last.found \in DOMAIN stake_mapping
    /\ stake_mapping[last.found].value = MAXIMUM_STAKE
    /\ stake_mapping[last.found].expiration
           > stake_mapping[last.found].eligibility + EXPIRATION_PERIOD
    /\ removed # {}

\* C14: the counter never decreases, and a Key withdraw_stake removed from
\* stake_mapping is in stake_mapping in no later state: no later stake
\* allocates the same (public_key, Counter).
C14_NoRecycling ==
    /\ [][counter' >= counter]_vars
    /\ [](\A k \in removed : k \notin DOMAIN stake_mapping)

\* C14 witness: a public key whose stake was withdrawn staked again, and the
\* new stake is live under another Key.
C14_Witness ==
    /\ last.op = "stake"
    /\ last.ret
    /\ Key(last.pk, last.retCounter) \in DOMAIN stake_mapping
    /\ \E k \in removed : k.pk = last.pk

\* C15: with an oracle under which a signature verifies for exactly one
\* (public_key, message) pair, a signature that authorised a successful
\* extend_stake on Key k authorises no later extend_stake or withdraw_stake on
\* k: the call returns false, changes nothing and issues no transfer.
C15_NoReplay ==
    [][ ( /\ IsStep("extend_stake") \/ IsStep("withdraw_stake")
          /\ [key |-> CalledKey, sig |-> last'.sig] \in spent )
        => /\ ~last'.ret
           /\ StoreUnchanged
           /\ transfers' = <<>> ]_vars

\* C15 witness: a withdrawal of a live stake past its expiration, so that only
\* the signature stands in its way, was rejected for carrying the signature
\* that extended the stake.
C15_Witness ==
    LET k == Key(last.pk, last.w_i)
    IN  /\ last.op = "withdraw_stake"
        /\ [key |-> k, sig |-> last.sig] \in spent
        /\ k \in DOMAIN stake_mapping
        /\ block_height > stake_mapping[k].expiration
        /\ ~last.ret

\* C16 (as claimed): slash returns true only if both transfer steps were
\* issued and succeeded, the withdrawal of PENALTY with the note and then the
\* transfer of the remainder; when the value of the note is unavailable or the
\* first transfer fails, slash returns false and the second transfer is not
\* issued.  With a note whose value note.value(None) cannot read, the code
\* returns true having issued no transfer at all.
C16_SlashTrueOnlyAfterBothTransfers ==
    last.op = "slash" =>
        /\ last.ret =>
               /\ Len(transfers) = 2
               /\ transfers[1].call = "withdraw_from_contract_transparent"
               /\ transfers[1].amount = PENALTY
               /\ transfers[1].ok
               /\ transfers[2].call = "withdraw_from_transparent_to_contract"
               /\ transfers[2].ok
        /\ (~last.note.readable \/ Len(transfers) = 0 \/ ~transfers[1].ok) =>
               /\ ~last.ret
               /\ Len(transfers) <= 1

\* C17: when stake passes the bounds check and both insertions find an empty
\* slot but the deposit fails (the transaction cannot be built, or
\* transact_raw answers false), the call returns (w_i, false) with w_i the
\* counter before the call, the counter has advanced by exactly one, and the
\* new record is in stake_identifier_set and in stake_mapping: no rollback.
C17_NoRollbackOnDepositFailure ==
    [][ ( /\ IsStep("stake")
          /\ ~AmtLt(last'.value, MINIMUM_STAKE)
          /\ ~AmtLt(MAXIMUM_STAKE, last'.value)
          /\ counter \notin DOMAIN stake_identifier_set
          /\ Key(last'.pk, counter) \notin DOMAIN stake_mapping
          /\ last'.out # "ok" )
        => LET k == Key(last'.pk, counter)
           IN  /\ last'.retCounter = counter
               /\ ~last'.ret
               /\ counter' = counter + 1
               /\ counter \in DOMAIN stake_identifier_set'
               /\ stake_identifier_set'[counter] = k
               /\ k \in DOMAIN stake_mapping'
               /\ stake_mapping'[k].value = last'.value
               /\ stake_mapping'[k].pk = last'.pk ]_vars

\* C17 witness: a second stake whose deposit the transfer contract refused
\* left its record live and the counter advanced.
C17_Witness ==
    /\ last.op = "stake"
    /\ last.out = "refused"
    /\ ~last.ret
    /\ last.retCounter > 0
    /\ counter = last.retCounter + 1
    /\ Key(last.pk, last.retCounter) \in DOMAIN stake_mapping
    /\ last.retCounter \in DOMAIN stake_identifier_set
    /\ Len(transfers) = 1

\* C18: when withdraw_stake passes the lookup, the expiry check and the
\* signature check, the Key is removed from stake_mapping whether or not the
\* payout then succeeds, nothing else in the store changes, and the boolean
\* returned is the outcome of the payout: false, with the record already
\* removed, when the transfer fails.
C18_RemovalUnconditional ==
    [][ ( /\ IsStep("withdraw_stake")
          /\ CalledKey \in DOMAIN stake_mapping
          /\ ~(stake_mapping[CalledKey].expiration >= block_height + COOLDOWN_PERIOD)
          /\ verify_bls_sig(last'.pk, last'.sig,
                 ScalarToBytes(stake_mapping[CalledKey].expiration)) # 0 )
        => /\ CalledKey \notin DOMAIN stake_mapping'
           /\ \A k \in DOMAIN stake_mapping \ {CalledKey} :
                  k \in DOMAIN stake_mapping' /\ stake_mapping'[k] = stake_mapping[k]
           /\ UNCHANGED <<counter, stake_identifier_set>>
           /\ last'.ret = (last'.out = "ok")
           /\ Len(transfers') <= 1
           /\ last'.ret <=> (Len(transfers') = 1 /\ transfers'[1].ok) ]_vars

\* C18 witness: a withdrawal whose payout the transfer contract refused
\* returned false and the Key is gone.
C18_Witness ==
    /\ last.op = "withdraw_stake"
    /\ last.out = "refused"
    /\ ~last.ret
    /\ Len(transfers) = 1
    /\ Key(last.pk, last.w_i) \in removed
    /\ Key(last.pk, last.w_i) \notin DOMAIN stake_mapping

\* C19: the duplicate-entry exits of stake are unreachable.  In every
\* reachable state no Counter of stake_identifier_set and no w_i of a Key of
\* stake_mapping is at or above the counter, so a stake that passes the bounds
\* check finds both slots empty; and the counter changes only in a stake
\* step in which both insertions added a new entry.
C19_NoStorageConflict ==
    /\ [](/\ \A c \in DOMAIN stake_identifier_set : c < counter
          /\ \A k \in DOMAIN stake_mapping : k.w_i < counter)
    /\ [][ ( /\ IsStep("stake")
             /\ ~AmtLt(last'.value, MINIMUM_STAKE)
             /\ ~AmtLt(MAXIMUM_STAKE, last'.value) )
           => /\ counter \notin DOMAIN stake_identifier_set
              /\ Key(last'.pk, counter) \notin DOMAIN stake_mapping ]_vars
    /\ [][ counter' # counter
           => /\ IsStep("stake")
              /\ counter \notin DOMAIN stake_identifier_set
              /\ counter \in DOMAIN stake_identifier_set'
              /\ Key(last'.pk, counter) \notin DOMAIN stake_mapping
              /\ Key(last'.pk, counter) \in DOMAIN stake_mapping' ]_vars

\* C19 witness: a stake found both slots empty at a counter above 0 after an
\* earlier stake was withdrawn, whose Counter stake_identifier_set still holds.
C19_Witness ==
    /\ last.op = "stake"
    /\ last.retCounter = counter - 1
    /\ counter >= 2
    /\ Cardinality(DOMAIN stake_identifier_set) = counter
    /\ Cardinality(DOMAIN stake_mapping) < counter
    /\ \E k \in removed : k.w_i < last.retCounter

\* C20 (as claimed): when any precondition of slash fails (message_1 differs
\* from message_2, signature_1 verifies over message_1, signature_2 verifies
\* over message_2, the value of the note is PENALTY), slash returns false,
\* the counter, stake_identifier_set and stake_mapping are unchanged and no
\* transfer has been issued.  The first three hold in the code; the fourth is
\* compared only when note.value(None) can read the value, and a note it
\* cannot read makes slash return true whatever its value.
C20_PreconditionFailureRejected ==
    [][ ( /\ IsStep("slash")
          /\ \/ last'.m1 = last'.m2
             \/ verify_bls_sig(last'.pk, last'.sig, ScalarToBytes(last'.m1)) = 0
             \/ verify_bls_sig(last'.pk, last'.sig2, ScalarToBytes(last'.m2)) = 0
             \/ last'.note.value # PENALTY )
        => /\ ~last'.ret
           /\ StoreUnchanged
           /\ transfers' = <<>> ]_vars

\* C21: in a slash whose penalty withdrawal succeeded and which went on to
\* transfer the remainder of the stake, the remainder goes to the arbitration
\* contract when the block height is strictly below 6311520 and to the
\* default (null) contract when the height is 6311520 or above.
C21_ArbitrationCutoff ==
    (last.op = "slash" /\ Len(transfers) = 2)
        => /\ transfers[1].ok
           /\ transfers[2].call = "withdraw_from_transparent_to_contract"
           /\ block_height < 6311520 => transfers[2].dest = "arbitration_contract"
           /\ block_height >= 6311520 => transfers[2].dest = "default"

\* C21 witness: a slash at exactly the cutoff height sent the remainder to
\* the default contract.
C21_Witness ==
    /\ last.op = "slash"
    /\ last.ret
    /\ Len(transfers) = 2
    /\ block_height = ARBITRATION_CUTOFF
    /\ transfers[2].dest = "default"

\* C22: the amount slash transfers out for the stake it located is exactly
\* stake.value - PENALTY, and the subtraction does not underflow in u64: the
\* stake's value is at least MINIMUM_STAKE, which is above PENALTY.
C22_RemainderExact ==
    (last.op = "slash" /\ Len(transfers) = 2)
        => /\ last.found \in DOMAIN stake_mapping
           /\ AmtLt(PENALTY, MINIMUM_STAKE)
           /\ ~AmtLt(stake_mapping[last.found].value, MINIMUM_STAKE)
           /\ ~AmtLt(stake_mapping[last.found].value, PENALTY)
           /\ AmtAdd(transfers[2].amount, PENALTY) = stake_mapping[last.found].value
           /\ AmtLt(transfers[2].amount, stake_mapping[last.found].value)

\* C22 witness: a slash transferred MINIMUM_STAKE - PENALTY out for a stake of
\* the smallest value stake accepts.
C22_Witness ==
    /\ last.op = "slash"
    /\ Len(transfers) = 2
    /\ last.found \in DOMAIN stake_mapping
    /\ stake_mapping[last.found].value = MINIMUM_STAKE
    /\ transfers[2].amount = <<0, 5000000, 0>>

\* C23 (as claimed): withdraw_stake issues a payout only for a Key whose
\* creating stake call returned success = true, that is, whose Counter is
\* among those returned with success.  stake keeps the record when its
\* deposit fails (C17), and withdraw_stake does not tell such a record from a
\* funded one.
C23_WithdrawnStakesFunded ==
    [][ (IsStep("withdraw_stake") /\ transfers' # <<>>)
        => \E i \in DOMAIN returned : returned[i] = last'.w_i ]_vars

\* C24 (as claimed): the amount a successful withdraw_stake pays out is the
\* value of the Stake it removed.  The code passes the caller's note to the
\* transfer contract without comparing its value with stake.value.
C24_PayoutEqualsStakeValue ==
    [][ (IsStep("withdraw_stake") /\ last'.ret)
        => /\ CalledKey \in DOMAIN stake_mapping
           /\ Len(transfers') = 1
           /\ transfers'[1].amount = stake_mapping[CalledKey].value ]_vars

=============================================================================
